---- MODULE Spec2Model ----
(***************************************************************************)
(* A model of stormpy/lwapi.py: the LWApi session object, its credential   *)
(* cache (_get_token, _get_auth) and its request pipeline (req).           *)
(*                                                                         *)
(* Python strings are sequences of one-character strings, so that          *)
(* readline(), int() and '%s\n%d' act on characters.  JSON text is a       *)
(* sequence of lexemes; json.dumps and json.loads convert between text and *)
(* tagged Python values.                                                   *)
(*                                                                         *)
(* The statements are read as Python 2 executes them (print statements,    *)
(* dict.keys() a list, open() raising IOError), one statement after the    *)
(* other as written; the class docstrings at column 0 (lines 28 and 38)    *)
(* are taken as if indented.  A req call is one step: `call` records its   *)
(* arguments, the state it started from, the I/O it did in order and how   *)
(* it ended, until the caller takes the result (Return).                   *)
(*                                                                         *)
(* Spec follows the credential cache over time, files and configurations   *)
(* with few request shapes; SpecDispatch follows the request pipeline over *)
(* paths, payloads, flags and answers for sessions with a password.        *)
(* SpecTwo has two LWApi objects alive in one process; SpecShared has a    *)
(* second process writing the file at the authfile path.                   *)
(***************************************************************************)
EXTENDS Integers, Sequences, FiniteSets, TLC

VARIABLES
  cfg,      \* the constructor arguments kept on the object (lines 70-78)
  token,    \* self._token
  expires,  \* self._expires
  used,     \* TRUE once req has been called on this object
  now,      \* the clock read by int(time.time())
  file,     \* content of the file at the authfile path, or NoFile
  call,     \* the req call that has just ended, until the caller takes its result
  other,    \* a second LWApi object of the process (cfg, _token, _expires), or None
  writer    \* the process that is writing the file: what it has yet to flush

vars == <<cfg, token, expires, used, now, file, call, other, writer>>

---------------------------------------------------------------------------
(* Bounds of the model *)

MaxTime == 13      \* the clock runs over 0..MaxTime
MaxPathLen == 2    \* longest generated method path, in characters

---------------------------------------------------------------------------
(* Python values *)

None == <<"None">>
Str(s) == <<"str", s>>
Num(n) == <<"num", n>>
Dict(f) == <<"dict", f>>
Text(t) == <<"text", t>>
IsDict(v) == v[1] = "dict"
EmptyMap == [k \in {} |-> None]

NL == "\n"
SLASH == "/"

K_params == <<"p","a","r","a","m","s">>
K_timeout == <<"t","i","m","e","o","u","t">>
K_token == <<"t","o","k","e","n">>
K_expires == <<"e","x","p","i","r","e","s">>
K_error_class == <<"e","r","r","o","r","_","c","l","a","s","s">>
K_error_message == <<"e","r","r","o","r","_","m","e","s","s","a","g","e">>
K_full_message == <<"f","u","l","l","_","m","e","s","s","a","g","e">>
K_result == <<"r","e","s","u","l","t">>
K_a == <<"a">>

---------------------------------------------------------------------------
(* Exceptions.  A raise statement first looks its class name up in the     *)
(* module's namespace; a name the module never binds raises NameError.     *)

ModuleNames == {"HTTPException", "StormException", "LWApi"}

Exc(type, args) == [type |-> type, args |-> args]
NoExc == Exc("None", <<>>)

Raise(name, args) ==
  IF name \in ModuleNames THEN Exc(name, args) ELSE Exc("NameError", <<name>>)

---------------------------------------------------------------------------
(* int() and '%d' on character strings *)

DigitChars == <<"0","1","2","3","4","5","6","7","8","9">>
IsDigit(c) == \E i \in 1..10 : DigitChars[i] = c
DigitVal(c) == (CHOOSE i \in 1..10 : DigitChars[i] = c) - 1
IsSpace(c) == c \in {NL, " "}

RECURSIVE LStrip(_)
LStrip(s) == IF s # <<>> /\ IsSpace(Head(s)) THEN LStrip(Tail(s)) ELSE s

RECURSIVE RStrip(_)
RStrip(s) ==
  IF s # <<>> /\ IsSpace(s[Len(s)]) THEN RStrip(SubSeq(s, 1, Len(s) - 1)) ELSE s

RECURSIVE DigitsValue(_, _)
DigitsValue(s, acc) ==
  IF s = <<>> THEN acc ELSE DigitsValue(Tail(s), 10 * acc + DigitVal(Head(s)))

\* int(s) for a str s: surrounding whitespace is dropped, the rest must be
\* decimal digits; anything else is ValueError.
IntOfStr(s) ==
  LET body == RStrip(LStrip(s))
  IN IF body # <<>> /\ \A i \in 1..Len(body) : IsDigit(body[i])
       THEN <<"ok", DigitsValue(body, 0)>>
       ELSE <<"ValueError">>

\* '%d' % n for n >= 0
RECURSIVE FormatInt(_)
FormatInt(n) ==
  IF n < 10 THEN <<DigitChars[n + 1]>>
  ELSE FormatInt(n \div 10) \o <<DigitChars[(n % 10) + 1]>>

\* int(v) for a parsed JSON value (a number, or a string of digits)
IntOfValue(v) == IF v[1] = "num" THEN <<"ok", v[2]>> ELSE IntOfStr(v[2])

---------------------------------------------------------------------------
(* JSON text: a sequence of lexemes.  json.dumps writes a value out,       *)
(* json.loads reads text back into a value.                                *)

LBrace == <<"{">>
RBrace == <<"}">>
Colon == <<":">>
Comma == <<",">>

\* The order in which a dict yields its keys (fixed for a given key set).
RECURSIVE KeyOrder(_)
KeyOrder(S) ==
  IF S = {} THEN <<>>
  ELSE LET k == CHOOSE x \in S : TRUE IN <<k>> \o KeyOrder(S \ {k})

RECURSIVE json_dumps(_)
RECURSIVE DumpMembers(_, _)
DumpMembers(f, keys) ==
  IF keys = <<>> THEN <<>>
  ELSE <<Str(Head(keys)), Colon>> \o json_dumps(f[Head(keys)])
       \o (IF Len(keys) > 1 THEN <<Comma>> ELSE <<>>)
       \o DumpMembers(f, Tail(keys))

json_dumps(v) ==
  IF IsDict(v)
    THEN <<LBrace>> \o DumpMembers(v[2], KeyOrder(DOMAIN v[2])) \o <<RBrace>>
    ELSE <<v>>

\* Recursive descent over well-formed text; each parser returns
\* <<value, remaining text>>.  A repeated key keeps its last value.
RECURSIVE ParseValue(_)
RECURSIVE ParseMembers(_, _)
ParseMembers(t, acc) ==
  IF Head(t)[1] = "}" THEN <<Dict(acc), Tail(t)>>
  ELSE IF Head(t)[1] = "," THEN ParseMembers(Tail(t), acc)
  ELSE LET key == Head(t)[2]
           r == ParseValue(SubSeq(t, 3, Len(t)))
       IN ParseMembers(r[2],
            [k \in (DOMAIN acc) \cup {key} |-> IF k = key THEN r[1] ELSE acc[k]])

ParseValue(t) ==
  IF Head(t)[1] = "{" THEN ParseMembers(Tail(t), EmptyMap)
  ELSE <<Head(t), Tail(t)>>

json_loads(t) == ParseValue(t)[1]

---------------------------------------------------------------------------
(* The authfile: a character string, or NoFile when open() fails *)

NoFile == <<"<missing>">>

\* file.readline(): through the first newline, or to the end of the file
RECURSIVE LineEnd(_, _)
LineEnd(s, i) ==
  IF i > Len(s) THEN Len(s) ELSE IF s[i] = NL THEN i ELSE LineEnd(s, i + 1)

readline(s) == SubSeq(s, 1, LineEnd(s, 1))
AfterLine(s) == SubSeq(s, LineEnd(s, 1) + 1, Len(s))

\* '%s\n%d' % (self._token, self._expires)
FormatAuthFile(tok, exp) == tok \o <<NL>> \o FormatInt(exp)

---------------------------------------------------------------------------
(* The session object.  A session s is [cfg, token, expires]; cfg holds    *)
(* the constructor arguments.                                              *)

Margin == 5
HTTP_OK == 200

Truthy(v) == v # None /\ v # <<>>

\* The value of the one-element set S: Only({F(x) : x \in {e}}) is F(e) with
\* e evaluated once.
Only(S) == CHOOSE x \in S : TRUE

\* self._url = 'https://%s/%s/' % (url, api_version)
BaseUrl(c) == <<"https://">> \o c.url \o <<"/">> \o c.api_version \o <<"/">>

TokenPath ==
  <<"A","c","c","o","u","n","t","/","A","u","t","h","/","t","o","k","e","n">>

\* data = '{"params":{"timeout":"3600"}}'
TokenRequestData ==
  <<LBrace, Str(K_params), Colon,
      LBrace, Str(K_timeout), Colon, Str(<<"3","6","0","0">>), RBrace,
    RBrace>>

\* What a call did, in order: files opened, prompts shown, requests posted.
NoResp == [status |-> 0, text |-> <<>>]
OpenEv(path, mode) ==
  [op |-> "open", by |-> "_get_token", url |-> path, auth |-> <<None, None>>,
   data |-> <<Str(<<mode>>)>>, resp |-> NoResp]
PromptEv(user) ==
  [op |-> "getpass", by |-> "_get_token", url |-> <<>>, auth |-> <<user, None>>,
   data |-> <<>>, resp |-> NoResp]
PostEv(by, url, auth, data, resp) ==
  [op |-> "post", by |-> by, url |-> url, auth |-> auth, data |-> data,
   resp |-> resp]

\* requests.auth.HTTPBasicAuth(username, password)
HTTPBasicAuth(username, password) == <<username, password>>

Result(tok, exp, f, evs, exc, ret) ==
  [token |-> tok, expires |-> exp, file |-> f, events |-> evs, exc |-> exc,
   ret |-> ret]

\* Mutant of TokenStale: a token is stale from 5 seconds before its expiry,
\* the boundary included.
TokenStale_AtBoundary(exp, t) == exp = 0 \/ t + Margin >= exp

\* Mutant of TokenStale: the comparison is turned around.
TokenStale_Flipped(exp, t) == exp = 0 \/ t < exp + Margin

\* if self._expires == 0 or now > self._expires + 5   (in _get_auth)
TokenStale(exp, t) == exp = 0 \/ t > exp + Margin

\* if self._expires == 0 or now > self._expires + 5   (in _get_token)
FileTokenStale(exp, t) == exp = 0 \/ t > exp + Margin

\* The try block of _get_token: how it ends, and what it has assigned to
\* self._token and self._expires by then.
ReadAuthFile(s, f, t) ==
  IF f = NoFile
    THEN [how |-> "IOError", token |-> s.token, expires |-> s.expires]
    ELSE LET tok == readline(f)
             n == IntOfStr(readline(AfterLine(f)))
         IN IF n[1] # "ok"
              THEN [how |-> "ValueError", token |-> tok, expires |-> s.expires]
              ELSE IF FileTokenStale(n[2], t)
                THEN [how |-> "IOError", token |-> tok, expires |-> n[2]]
                ELSE [how |-> "return", token |-> tok, expires |-> n[2]]

\* The names _get_token can resolve: its locals and the module's globals.
GetTokenNames ==
  {"self", "af", "now", "passwd", "auth", "url", "data", "r",
   "os", "requests", "time", "json", "getpass"} \cup ModuleNames

\* if self._authfile: af = open(authfile, 'w'); af.write(...)
WriteAuthFile(s, f) ==
  IF ~Truthy(s.cfg.authfile) THEN [file |-> f, exc |-> NoExc]
  ELSE IF "authfile" \notin GetTokenNames
    THEN [file |-> f, exc |-> Exc("NameError", <<"authfile">>)]
    ELSE [file |-> FormatAuthFile(s.token, s.expires), exc |-> NoExc]

\* Lines 136-145: store the token and expiry of the parsed 200 answer, then
\* write the authfile.
StoreToken(s, f, body, evs) ==
  LET n == IntOfValue(body[K_expires])
  IN IF n[1] # "ok"
       THEN Result(body[K_token][2], s.expires, f, evs, Exc("ValueError", <<>>),
                   None)
       ELSE Only({Result(body[K_token][2], n[2], w.file, evs, w.exc, None) :
                    w \in {WriteAuthFile(
                             [s EXCEPT !.token = body[K_token][2],
                                       !.expires = n[2]], f)}})

\* Lines 126-134: post to Account/Auth/token with the password.  r is the
\* server's answer, evs what the call did before.
FetchToken(s, f, passwd, r, evs) ==
  LET c == s.cfg
      post == PostEv("_get_token", BaseUrl(c) \o TokenPath,
                     HTTPBasicAuth(c.user, passwd), TokenRequestData, r)
  IN IF r.status # HTTP_OK
       THEN Result(s.token, s.expires, f, evs \o <<post>>,
                   Raise("BadResponseException", <<r.status, r.text>>), None)
       ELSE Only({StoreToken(s, f, body, evs \o <<post>>) :
                    body \in {json_loads(r.text)[2]}})

\* Lines 89-124 once the try block has ended as rd.
AfterRead(s, f, rd, typed, r) ==
  LET c == s.cfg
      openEv == <<OpenEv(c.authfile, "r")>>
      promptEv == <<PromptEv(c.user)>>
  IN IF rd.how = "return"
       THEN Result(rd.token, rd.expires, f, openEv, NoExc, None)
     ELSE IF rd.how = "ValueError"
       THEN Result(rd.token, rd.expires, f, openEv, Exc("ValueError", <<>>), None)
     ELSE FetchToken([s EXCEPT !.token = rd.token, !.expires = rd.expires],
                     f, typed, r, openEv \o promptEv)

\* _get_token: typed is what the user enters at the getpass prompt, t the
\* clock when the file's token is checked.
get_token(s, f, t, typed, r) ==
  LET c == s.cfg
  IN IF c.password = None /\ Truthy(c.authfile)
       THEN Only({AfterRead(s, f, rd, typed, r) : rd \in {ReadAuthFile(s, f, t)}})
     ELSE IF c.password = None
       THEN FetchToken(s, f, typed, r, <<PromptEv(c.user)>>)
     ELSE FetchToken(s, f, c.password, r, <<>>)

\* Mutant of WithAuth: the account password is sent in place of the token.
WithAuth_Password(s, g) ==
  IF g.exc.type # "None" THEN g
  ELSE [g EXCEPT !.ret = HTTPBasicAuth(s.cfg.user, s.cfg.password)]

\* return requests.auth.HTTPBasicAuth(self._user, self._token)
WithAuth(s, g) ==
  IF g.exc.type # "None" THEN g
  ELSE [g EXCEPT !.ret = HTTPBasicAuth(s.cfg.user, g.token)]

\* _get_auth: t0 is the clock it reads; ret is the HTTPBasicAuth object.
get_auth(s, f, t0, t1, typed, r) ==
  IF TokenStale(s.expires, t0)
    THEN Only({WithAuth(s, g) : g \in {get_token(s, f, t1, typed, r)}})
    ELSE WithAuth(s, Result(s.token, s.expires, f, <<>>, NoExc, None))

---------------------------------------------------------------------------
(* req: the request dispatcher and the response interpreter *)

\* Mutant of NormalizePath: every leading '/' is taken off.
RECURSIVE NormalizePath_StripAll(_)
NormalizePath_StripAll(path) ==
  IF path # <<>> /\ path[1] = SLASH THEN NormalizePath_StripAll(Tail(path))
  ELSE path

\* if path[0] == '/': path = path[1:]
NormalizePath(path) == IF path[1] = SLASH THEN Tail(path) ELSE path

\* Mutant of NormalizeData: unwraps whenever a params key is present.
NormalizeData_AnyParams(data) ==
  IF K_params \in DOMAIN data[2] THEN data[2][K_params] ELSE data

\* if data.keys() == ['params']: data = data['params']
NormalizeData(data) ==
  IF DOMAIN data[2] = {K_params} THEN data[2][K_params] ELSE data

\* json.dumps({'params': data})
Envelope(data) == json_dumps(Dict([k \in {K_params} |-> data]))

\* if 'error_class' in response: raise StormException(...)
ApplicationError(c, response) ==
  IF K_error_class \in DOMAIN response[2]
    THEN Raise("StormException",
               <<response[2][K_error_class], response[2][K_error_message],
                 response[2][K_full_message]>>)
    ELSE NoExc

\* Mutant of SelectShape: the per-call argument is ignored.
SelectShape_DefaultOnly(c, raw_json, text, response) ==
  IF c.raw_json THEN Text(text) ELSE response

\* Lines 208-217: raw_json is "None", "True" or "False"
SelectShape(c, raw_json, text, response) ==
  IF raw_json = "None"
    THEN (IF c.raw_json THEN Text(text) ELSE response)
    ELSE IF raw_json = "True" THEN Text(text) ELSE response

\* Mutant of Dispatch: the request is posted although _get_auth raised.
Dispatch_PostAnyway(s, a, path, data, raw_json, ar) ==
  LET c == s.cfg
      url == BaseUrl(c) \o NormalizePath(path)
      post == PostEv("req", url, a.ret, Envelope(NormalizeData(data)), ar)
      evs == a.events \o <<post>>
  IN IF a.exc.type # "None"
       THEN Result(a.token, a.expires, a.file, evs, a.exc, None)
     ELSE IF ar.status # HTTP_OK
       THEN Result(a.token, a.expires, a.file, evs,
                   Raise("BadResponseException", <<ar.status, ar.text>>), None)
     ELSE Only({IF ApplicationError(c, response).type # "None"
                  THEN Result(a.token, a.expires, a.file, evs,
                              ApplicationError(c, response), None)
                  ELSE Result(a.token, a.expires, a.file, evs, NoExc,
                              SelectShape(c, raw_json, ar.text, response)) :
                response \in {json_loads(ar.text)}})

\* Mutant of Dispatch: the raw text is returned before the response is
\* looked at for error_class.
Dispatch_ShapeFirst(s, a, path, data, raw_json, ar) ==
  LET c == s.cfg
      url == BaseUrl(c) \o NormalizePath(path)
      post == PostEv("req", url, a.ret, Envelope(NormalizeData(data)), ar)
      evs == a.events \o <<post>>
      raw == raw_json = "True" \/ (raw_json = "None" /\ c.raw_json)
  IN IF a.exc.type # "None" THEN [a EXCEPT !.ret = None]
     ELSE IF ar.status # HTTP_OK
       THEN Result(a.token, a.expires, a.file, evs,
                   Raise("BadResponseException", <<ar.status, ar.text>>), None)
     ELSE IF raw
       THEN Result(a.token, a.expires, a.file, evs, NoExc, Text(ar.text))
     ELSE Only({IF ApplicationError(c, response).type # "None"
                  THEN Result(a.token, a.expires, a.file, evs,
                              ApplicationError(c, response), None)
                  ELSE Result(a.token, a.expires, a.file, evs, NoExc, response) :
                response \in {json_loads(ar.text)}})

\* Lines 192-217 once _get_auth has ended as a: post, then interpret the
\* answer ar.
Dispatch(s, a, path, data, raw_json, ar) ==
  LET c == s.cfg
      url == BaseUrl(c) \o NormalizePath(path)
      post == PostEv("req", url, a.ret, Envelope(NormalizeData(data)), ar)
      evs == a.events \o <<post>>
  IN IF a.exc.type # "None" THEN [a EXCEPT !.ret = None]
     ELSE IF ar.status # HTTP_OK
       THEN Result(a.token, a.expires, a.file, evs,
                   Raise("BadResponseException", <<ar.status, ar.text>>), None)
     ELSE Only({IF ApplicationError(c, response).type # "None"
                  THEN Result(a.token, a.expires, a.file, evs,
                              ApplicationError(c, response), None)
                  ELSE Result(a.token, a.expires, a.file, evs, NoExc,
                              SelectShape(c, raw_json, ar.text, response)) :
                response \in {json_loads(ar.text)}})

\* req(path, data, raw_json) on session s with the authfile holding f.
\* t0, t1: the clock as read by _get_auth and by _get_token; typed: the
\* password entered if prompted; tr, ar: the server's answers to the token
\* request and to the API request, if they are sent.
req(s, f, t0, t1, path, data, raw_json, typed, tr, ar) ==
  IF path = <<>>
    THEN Result(s.token, s.expires, f, <<>>, Exc("IndexError", <<>>), None)
    ELSE Only({Dispatch(s, a, path, data, raw_json, ar) :
                 a \in {get_auth(s, f, t0, t1, typed, tr)}})

---------------------------------------------------------------------------
(* Inputs *)

User == <<"u">>
Password == <<"p","w">>
TypedPassword == <<"t","y">>
AuthFilePath == <<"a","u","t","h">>
TokenA == <<"a">>
TokenB == <<"b">>

\* LWApi(user, password, url, api_version, verify, authfile, raw_json,
\*       raise_exceptions)
Config(password, authfile, raw_json, raise_exceptions) ==
  [user |-> User, password |-> password,
   url |-> <<"api.stormondemand.com">>, api_version |-> <<"v1">>,
   verify |-> TRUE, authfile |-> authfile, raw_json |-> raw_json,
   raise_exceptions |-> raise_exceptions]

Configs ==
  {Config(p, a, rj, re) : p \in {None, Password}, a \in {None, AuthFilePath},
                          rj \in BOOLEAN, re \in BOOLEAN}
CredentialConfigs == {c \in Configs : ~c.raw_json /\ c.raise_exceptions}
DispatchConfigs == {c \in Configs : c.password # None /\ c.authfile = None}

Files ==
  {NoFile, <<>>, TokenA, TokenA \o <<NL>>, TokenA \o <<NL, "x">>,
   FormatAuthFile(TokenA, 0), FormatAuthFile(TokenA, 7),
   FormatAuthFile(TokenB, 12), FormatAuthFile(TokenB, 7) \o <<NL>>}

Response(status, text) == [status |-> status, text |-> text]
DeniedText == <<Str(<<"d","e","n","i","e","d">>)>>

TokenBody(tok, exp) ==
  json_dumps(Dict([k \in {K_token, K_expires} |->
                     IF k = K_token THEN Str(tok) ELSE Num(exp)]))
TokenResponses ==
  {Response(200, TokenBody(TokenA, 7)), Response(200, TokenBody(TokenB, 12)),
   Response(401, DeniedText)}

PongBody == <<LBrace, Str(K_result), Colon, Str(<<"p","o","n","g">>), RBrace>>
ErrorBody ==
  <<LBrace, Str(K_full_message), Colon, Str(<<"F">>), Comma,
            Str(K_error_class), Colon, Str(<<"E">>), Comma,
            Str(K_error_message), Colon, Str(<<"M">>), RBrace>>
ApiResponses ==
  {Response(200, PongBody), Response(200, ErrorBody),
   Response(401, DeniedText), Response(500, ErrorBody)}

PathChars == {SLASH, "a", "A"}
Paths == UNION {[1..n -> PathChars] : n \in 1..MaxPathLen}

\* Caller-supplied mappings: flat ones, the same under one and two 'params'
\* wrappers, and 'params' beside a sibling key.
DataKeys == {K_params, K_a}
Data0 == UNION {{Dict(f) : f \in [K -> {Num(1)}]} : K \in SUBSET DataKeys}
Wrap(d) == Dict([k \in {K_params} |-> d])
WithSibling(d) == Dict([k \in DataKeys |-> IF k = K_params THEN d ELSE Num(1)])
Datas ==
  Data0 \cup {Wrap(d) : d \in Data0} \cup {Wrap(Wrap(d)) : d \in Data0}
        \cup {WithSibling(d) : d \in Data0}

---------------------------------------------------------------------------
(* The state machine *)

NoCall ==
  [done |-> FALSE, first |-> FALSE, cfg |-> None, path |-> <<>>,
   data |-> Dict(EmptyMap),
   raw_json |-> "None", now |-> 0, token |-> <<>>, expires |-> 0,
   file |-> NoFile, events |-> <<>>, exc |-> NoExc, ret |-> None,
   other |-> None]

\* An LWApi object as __init__ leaves it (lines 70-82)
NewObject(c) == [cfg |-> c, token |-> <<>>, expires |-> 0, used |-> FALSE]
\* No file is open for writing
Idle == <<>>

\* Mutant of OtherObject: _token and _expires belong to the class.
OtherObject_ClassAttrs(o, res) ==
  [o EXCEPT !.token = res.token, !.expires = res.expires]

\* self._token = ... and self._expires = ... set attributes of the object the
\* method was called on (lines 97-98, 137-138); the class has no attribute
\* of its own and __init__ gives each object its pair (lines 81-82), so
\* another object o is as it was after the call that ended as res.
OtherObject(o, res) == o

Session == [cfg |-> cfg, token |-> token, expires |-> expires]

InitWith(C) ==
  /\ cfg \in C
  /\ token = <<>>
  /\ expires = 0
  /\ used = FALSE
  /\ now = 0
  /\ file \in Files
  /\ call = NoCall
  /\ other = None
  /\ writer = Idle

Init == InitWith(CredentialConfigs)
InitDispatch == InitWith(DispatchConfigs) /\ file = NoFile

\* A caller runs req(path, data, raw_json) to its end; the call takes d
\* seconds between the two readings of the clock.
Req(path, data, raw_json, d, typed, tr, ar) ==
  /\ now + d <= MaxTime
  /\ \E res \in {req(Session, file, now, now + d, path, data, raw_json,
                     typed, tr, ar)} :
        /\ token' = res.token
        /\ expires' = res.expires
        /\ file' = res.file
        /\ call' = [done |-> TRUE, first |-> ~used, cfg |-> cfg,
                    path |-> path, data |-> data, raw_json |-> raw_json, now |-> now,
                    token |-> token, expires |-> expires, file |-> file,
                    events |-> res.events, exc |-> res.exc, ret |-> res.ret,
                    other |-> other]
        /\ other' = OtherObject(other, res)
  /\ used' = TRUE
  /\ now' = now + d
  /\ UNCHANGED <<cfg, writer>>

\* One second passes.
Tick ==
  /\ ~call.done
  /\ now < MaxTime
  /\ now' = now + 1
  /\ UNCHANGED <<cfg, token, expires, used, file, call, other, writer>>

\* Another process writes, truncates or removes the file at the authfile path.
ExternalWrite(f) ==
  /\ f # file
  /\ file' = f
  /\ UNCHANGED <<cfg, token, expires, used, now, call, other, writer>>

\* LWApi(...): a new object replaces the session (lines 70-82).
Construct(c) ==
  /\ cfg' = c
  /\ token' = <<>>
  /\ expires' = 0
  /\ used' = FALSE
  /\ UNCHANGED <<now, file, call, other, writer>>

\* The caller takes the value req returned, or handles what it raised.
Return ==
  /\ call.done
  /\ call' = NoCall
  /\ UNCHANGED <<cfg, token, expires, used, now, file, other, writer>>

CredentialReq ==
  /\ ~call.done
  /\ \E path \in {<<"a">>, TokenPath}, d \in {0, 1}, tr \in TokenResponses,
     ar \in {Response(200, PongBody), Response(401, DeniedText)} :
       Req(path, Dict(EmptyMap), "None", d, TypedPassword, tr, ar)
OtherProcess ==
  /\ ~call.done
  /\ \E f \in Files : ExternalWrite(f)
NewSession ==
  /\ ~call.done
  /\ \E c \in CredentialConfigs : Construct(c)

Next == CredentialReq \/ Return \/ Tick \/ OtherProcess \/ NewSession
Spec == Init /\ [][Next]_vars

DispatchReq ==
  /\ ~call.done
  /\ \E path \in Paths, data \in Datas, raw_json \in {"None", "True", "False"},
     tr \in {Response(200, TokenBody(TokenA, 7)), Response(401, DeniedText)},
     ar \in ApiResponses :
       Req(path, data, raw_json, 0, TypedPassword, tr, ar)
NewDispatchSession ==
  /\ ~call.done
  /\ \E c \in DispatchConfigs : Construct(c)

NextDispatch == DispatchReq \/ Return \/ NewDispatchSession
SpecDispatch == InitDispatch /\ [][NextDispatch]_vars

\* Two LWApi objects in one process: the caller goes on with the other one.
Switch ==
  /\ ~call.done
  /\ cfg' = other.cfg
  /\ token' = other.token
  /\ expires' = other.expires
  /\ used' = other.used
  /\ other' = [cfg |-> cfg, token |-> token, expires |-> expires,
               used |-> used]
  /\ UNCHANGED <<now, file, call, writer>>

TwoConfigs == {c \in CredentialConfigs : c.password # None \/ c.authfile # None}
TwoFiles == {NoFile, FormatAuthFile(TokenA, 7), FormatAuthFile(TokenB, 12)}

InitTwo ==
  /\ cfg \in TwoConfigs
  /\ token = <<>>
  /\ expires = 0
  /\ used = FALSE
  /\ now = 0
  /\ file \in TwoFiles
  /\ call = NoCall
  /\ other \in {NewObject(c) : c \in TwoConfigs}
  /\ writer = Idle

TwoReq ==
  /\ ~call.done
  /\ \E tr \in TokenResponses,
        ar \in {Response(200, PongBody), Response(401, DeniedText)} :
       Req(<<"a">>, Dict(EmptyMap), "None", 0, TypedPassword, tr, ar)
TwoFile ==
  /\ ~call.done
  /\ \E f \in TwoFiles : ExternalWrite(f)

NextTwo == TwoReq \/ Return \/ Switch \/ Tick \/ TwoFile
SpecTwo == InitTwo /\ [][NextTwo]_vars

\* The credentials the writing process stores
WriterPairs == {<<TokenA, 7>>, <<TokenB, 12>>}

\* af = open(path, 'w') in another process: the file at the path is created
\* or truncated; what af.write is given stays in the file object (line 144).
WriterOpen(w) ==
  /\ writer = Idle
  /\ file' = <<>>
  /\ writer' = <<w>>
  /\ UNCHANGED <<cfg, token, expires, used, now, call, other>>

\* The file object is flushed when it is dropped (af.close on line 145 is
\* not a call): the text '%s\n%d' reaches the file in one write.
WriterFlush ==
  /\ writer # Idle
  /\ file' = FormatAuthFile(writer[1][1], writer[1][2])
  /\ writer' = Idle
  /\ UNCHANGED <<cfg, token, expires, used, now, call, other>>

SharedConfigs == {c \in CredentialConfigs : c.authfile # None}

InitShared ==
  /\ cfg \in SharedConfigs
  /\ token = <<>>
  /\ expires = 0
  /\ used = FALSE
  /\ now = 0
  /\ file = NoFile
  /\ call = NoCall
  /\ other = None
  /\ writer = Idle

SharedReq ==
  /\ ~call.done
  /\ \E tr \in TokenResponses,
        ar \in {Response(200, PongBody), Response(401, DeniedText)} :
       Req(<<"a">>, Dict(EmptyMap), "None", 0, TypedPassword, tr, ar)
WriterStart ==
  /\ ~call.done
  /\ \E w \in WriterPairs : WriterOpen(w)
WriterEnd ==
  /\ ~call.done
  /\ WriterFlush

NextShared == SharedReq \/ Return \/ WriterStart \/ WriterEnd \/ Tick
SpecShared == InitShared /\ [][NextShared]_vars

---------------------------------------------------------------------------
(* What the call that has just ended did *)

Events == call.events
Posts == {i \in DOMAIN Events : Events[i].op = "post"}
TokenFetches == {i \in Posts : Events[i].by = "_get_token"}
ApiPosts == {i \in Posts : Events[i].by = "req"}
Prompts == {i \in DOMAIN Events : Events[i].op = "getpass"}
FileReads == {i \in DOMAIN Events : Events[i].op = "open"}
\* _get_token ran: it opens the file, prompts or posts before anything else
RefreshStarted == \E i \in DOMAIN Events : Events[i].by = "_get_token"
Raised == call.exc.type # "None"
TokenUrl == BaseUrl(cfg) \o TokenPath

---------------------------------------------------------------------------
(* C1..C10 *)

\* C1: at the start of a call with stored expiry E and clock T, no refresh
\* is started if and only if E # 0 and T + 5 <= E.
C1_ValidityRule ==
  (call.done /\ call.path # <<>>)
    => (~RefreshStarted <=> (call.expires # 0 /\ call.now + 5 <= call.expires))

\* C2: every request answered with a status other than 200 ends the call
\* with HTTPException(status, body), whatever raise_exceptions and raw_json
\* are, and nothing is returned.
C2_TransportError ==
  call.done =>
    \A i \in Posts :
      Events[i].resp.status # 200
        => /\ call.exc.type = "HTTPException"
           /\ call.exc.args = <<Events[i].resp.status, Events[i].resp.text>>
           /\ call.ret = None

\* C3: a 200 answer whose parsed body has error_class raises StormException
\* (error_class, error_message, full_message) when raise_exceptions is
\* True, and is returned as data, raising nothing, when it is False.
C3_RaiseFlag ==
  call.done =>
    \A i \in ApiPosts :
      (/\ Events[i].resp.status = 200
       /\ K_error_class \in DOMAIN json_loads(Events[i].resp.text)[2])
        => LET body == json_loads(Events[i].resp.text)
           IN IF cfg.raise_exceptions
                THEN /\ call.exc.type = "StormException"
                     /\ call.exc.args = <<body[2][K_error_class],
                                          body[2][K_error_message],
                                          body[2][K_full_message]>>
                ELSE /\ ~Raised
                     /\ call.ret[1] \in {"dict", "text"}

\* C4: for a 200 answer without error_class, req returns the raw text when
\* raw_json is True, the parsed structure when it is False, and follows the
\* session default when it is None; the session default is left as it was.
C4_ResponseShape ==
  call.done =>
    \A i \in ApiPosts :
      (/\ Events[i].resp.status = 200
       /\ K_error_class \notin DOMAIN json_loads(Events[i].resp.text)[2])
        => LET raw == Text(Events[i].resp.text)
               parsed == json_loads(Events[i].resp.text)
           IN /\ ~Raised
              /\ call.raw_json = "True" => call.ret = raw
              /\ call.raw_json = "False" => call.ret = parsed
              /\ (call.raw_json = "None" /\ call.cfg.raw_json) => call.ret = raw
              /\ (call.raw_json = "None" /\ ~call.cfg.raw_json)
                   => call.ret = parsed
              /\ cfg = call.cfg

\* C4 witness: the per-call False has won over a session default of True.
C4_Witness ==
  /\ call.done
  /\ ApiPosts # {}
  /\ call.raw_json = "False"
  /\ call.cfg.raw_json
  /\ ~Raised
  /\ call.ret[1] = "dict"

\* The parameters the envelope is said to carry for a supplied mapping D
ClaimedParams(D) ==
  IF DOMAIN D[2] = {K_params} THEN D[2][K_params] ELSE D
ClaimedEnvelope(D) == json_dumps(Dict([k \in {K_params} |-> ClaimedParams(D)]))
OnlyParams(D) == IsDict(D) /\ DOMAIN D[2] = {K_params}

\* C5 as stated: the wire body is {"params": P} with P = D["params"] when
\* params is the only key of D and P = D otherwise; supplying {"params": P}
\* puts the same envelope on the wire as supplying P directly, for every
\* mapping P; the envelope has no top-level key other than params.
C5_Original ==
  call.done =>
    \A i \in ApiPosts :
      /\ Events[i].data = ClaimedEnvelope(call.data)
      /\ (OnlyParams(call.data) /\ IsDict(call.data[2][K_params]))
           => Events[i].data = ClaimedEnvelope(call.data[2][K_params])
      /\ DOMAIN json_loads(Events[i].data)[2] = {K_params}

\* C5 amended: as C5, but supplying {"params": P} and supplying P directly
\* agree only for a mapping P that is not itself a mapping whose only key
\* is params.
C5_Envelope ==
  call.done =>
    \A i \in ApiPosts :
      /\ Events[i].data = ClaimedEnvelope(call.data)
      /\ (/\ OnlyParams(call.data)
          /\ IsDict(call.data[2][K_params])
          /\ ~OnlyParams(call.data[2][K_params]))
           => Events[i].data = ClaimedEnvelope(call.data[2][K_params])
      /\ DOMAIN json_loads(Events[i].data)[2] = {K_params}

\* C5 witness: {"params": {"a": 1}} was supplied and its request was sent.
C5_Witness ==
  /\ call.done
  /\ ApiPosts # {}
  /\ call.data = Wrap(Dict([k \in {K_a} |-> Num(1)]))

\* C6: the request goes to base_url + path with exactly one leading '/'
\* taken off the path, so req('/' + p) and req(p) reach the same URL.
C6_PathNormalization ==
  call.done =>
    \A i \in ApiPosts :
      IF call.path[1] = SLASH
        THEN Events[i].url = BaseUrl(cfg) \o Tail(call.path)
        ELSE Events[i].url = BaseUrl(cfg) \o call.path

\* C6 witness: a path of two separators was requested and keeps the second.
C6_Witness ==
  /\ call.done
  /\ call.path = <<SLASH, SLASH>>
  /\ \E i \in ApiPosts : Events[i].url = BaseUrl(cfg) \o <<SLASH>>

\* A credential (tok, E), valid at clock T, is what the file holds
ValidCredentialWritten(f, tok, E, T) ==
  f = FormatAuthFile(tok, E) /\ E # 0 /\ T + 5 <= E

\* C7: when the file holds a written credential that is still valid, the
\* first request of a new session pointed at that file fetches no token,
\* prompts for no password, and is sent with exactly the written token.
C7_CacheHit ==
  (call.done /\ call.first /\ Truthy(cfg.authfile)) =>
    \A tok \in {TokenA, TokenB}, E \in 1..(MaxTime + 5) :
      ValidCredentialWritten(call.file, tok, E, call.now)
        => /\ TokenFetches = {}
           /\ Prompts = {}
           /\ \E i \in ApiPosts : Events[i].auth = <<cfg.user, tok>>

\* The file cannot serve the refresh: it is missing, its second line is no
\* integer, or its credential is expired at clock T.
CacheMiss(f, T) ==
  \/ f = NoFile
  \/ IntOfStr(readline(AfterLine(f)))[1] # "ok"
  \/ LET E == IntOfStr(readline(AfterLine(f)))[2] IN E = 0 \/ T + 5 > E

\* C8: a refresh that finds the file missing, malformed or expired raises
\* no read or parse failure; it prompts for a password and posts exactly
\* one token request.
C8_MissSwallowed ==
  (/\ call.done
   /\ RefreshStarted
   /\ cfg.password = None
   /\ Truthy(cfg.authfile)
   /\ CacheMiss(call.file, call.now))
    => /\ call.exc.type \notin {"IOError", "ValueError"}
       /\ Cardinality(Prompts) = 1
       /\ Cardinality(TokenFetches) = 1

\* The passwords of the account: the configured one, or the one typed
AccountPasswords == {Password, TypedPassword}

\* C9 as stated: API requests carry (user, in-memory token); the account
\* password goes only to Account/Auth/token with the fixed body; no request
\* to the token endpoint carries the token as its password.
C9_Original ==
  call.done =>
    \A i \in Posts :
      /\ Events[i].by = "req" => Events[i].auth = <<cfg.user, token>>
      /\ Events[i].auth[2] \in AccountPasswords
           => (Events[i].url = TokenUrl /\ Events[i].data = TokenRequestData)
      /\ Events[i].url = TokenUrl => Events[i].auth[2] # token

\* C9 amended: as C9, but it is the token request posted by _get_token that
\* never carries the token (it carries the account password); an API
\* request the caller addresses to Account/Auth/token carries the token
\* like any other.
C9_Credentials ==
  call.done =>
    \A i \in Posts :
      /\ Events[i].by = "req" => Events[i].auth = <<cfg.user, token>>
      /\ Events[i].auth[2] \in AccountPasswords
           => (Events[i].url = TokenUrl /\ Events[i].data = TokenRequestData)
      /\ Events[i].by = "_get_token"
           => /\ Events[i].auth[2] # token
              /\ Events[i].auth[1] = cfg.user
              /\ Events[i].auth[2] \in AccountPasswords
              /\ Events[i].url = TokenUrl

\* C9 witness: one call fetched a token and then sent its API request.
C9_Witness ==
  /\ call.done
  /\ TokenFetches # {}
  /\ ApiPosts # {}
  /\ call.path = <<"a">>

\* The refresh ended by taking the file's credential: the file was read and
\* the API request went out with no token request before it
SatisfiedByFile == FileReads # {} /\ TokenFetches = {} /\ ApiPosts # {}

\* C10: with a configured password no refresh prompts and every token
\* request carries it; with none configured, every refresh the file does
\* not satisfy prompts once, and the configured password stays absent.
C10_PasswordSource ==
  call.done =>
    /\ cfg.password # None
         => /\ Prompts = {}
            /\ \A i \in TokenFetches : Events[i].auth[2] = cfg.password
    /\ (cfg.password = None /\ RefreshStarted /\ ~SatisfiedByFile)
         => /\ Cardinality(Prompts) = 1
            /\ \A i \in TokenFetches : Events[i].auth[2] = TypedPassword
    /\ cfg = call.cfg

---------------------------------------------------------------------------
(* C11..C19 *)

\* The credential a call started with is within the margin of its expiry
\* (or was never fetched), by the rule T + 5 > E.
StartedStale == call.expires = 0 \/ call.now + 5 > call.expires

\* C11: an API request that goes out from a call that started with a stale
\* credential (E = 0 or now + 5 > E) has a refresh attempt before it in the
\* same call.
C11_NoStaleWithoutRefresh ==
  (call.done /\ StartedStale) =>
    \A i \in ApiPosts :
      \E j \in 1..(i - 1) : Events[j].by = "_get_token"

\* The expiry the file holds, when its second line is an integer
FileExpiry(f) == IntOfStr(readline(AfterLine(f)))
FileAtBoundary ==
  /\ FileReads # {}
  /\ call.file # NoFile
  /\ FileExpiry(call.file)[1] = "ok"
  /\ FileExpiry(call.file)[2] = now + 5

\* C12 as stated: a credential whose expiry is exactly now + 5 is invalid
\* and is refreshed, in memory and when read from the file.
C12_Original ==
  call.done =>
    /\ call.expires = call.now + 5 => RefreshStarted
    /\ FileAtBoundary => (TokenFetches # {} \/ Raised)

\* C12 amended: a credential whose expiry is exactly now + 5 is valid: in
\* memory it is used with no refresh; read from the file it is adopted with
\* no prompt and no token request.
C12_Boundary ==
  call.done =>
    /\ call.expires = call.now + 5
         => (~RefreshStarted /\ ApiPosts # {} /\ expires = call.expires)
    /\ FileAtBoundary
         => /\ TokenFetches = {}
            /\ Prompts = {}
            /\ ApiPosts # {}
            /\ expires = now + 5

\* C12 witness: a call started with an in-memory expiry of exactly now + 5.
C12_Witness ==
  /\ call.done
  /\ call.expires = call.now + 5
  /\ ApiPosts # {}

\* C13: whatever _get_token does comes before the API request; a token
\* request answered with another status than 200 is followed by no API
\* request; a call posts at most one token request and one API request.
C13_OrderNoRetry ==
  call.done =>
    /\ \A i \in ApiPosts, j \in DOMAIN Events :
         Events[j].by = "_get_token" => j < i
    /\ (\E j \in TokenFetches : Events[j].resp.status # 200) => ApiPosts = {}
    /\ Cardinality(TokenFetches) <= 1
    /\ Cardinality(ApiPosts) <= 1

\* C13 witness: the token request was refused and the call ended there.
C13_Witness ==
  /\ call.done
  /\ \E j \in TokenFetches : Events[j].resp.status = 401
  /\ Cardinality(Posts) = 1
  /\ Raised

\* The token and expiry a 200 answer of the token endpoint carries
AnswerToken(r) == json_loads(r.text)[2][K_token][2]
AnswerExpiry(r) == IntOfValue(json_loads(r.text)[2][K_expires])[2]

\* C14: after a 200 answer of the token endpoint the session holds the
\* answer's token and expiry and the refresh ends normally; with an
\* authfile configured the file then holds the two lines token and expiry,
\* and reading it back gives the token and expiry in memory.
C14_StoreAndPersist ==
  call.done =>
    \A j \in TokenFetches :
      Events[j].resp.status = 200
        => /\ token = AnswerToken(Events[j].resp)
           /\ expires = AnswerExpiry(Events[j].resp)
           /\ ApiPosts # {}
           /\ Truthy(cfg.authfile)
                => /\ file = FormatAuthFile(token, expires)
                   /\ readline(file) = token
                   /\ FileExpiry(file) = <<"ok", expires>>

\* The credential a call started with is valid: E # 0 and T + 5 <= E
StartedValid == call.expires # 0 /\ call.now + 5 <= call.expires

\* C15: a call that starts with a valid in-memory credential reads no file,
\* prompts for nothing, posts no token request and exactly one request, the
\* API request, and leaves token and expiry as they were.
C15_CacheHitNoEffects ==
  (call.done /\ StartedValid) =>
    /\ FileReads = {}
    /\ Prompts = {}
    /\ TokenFetches = {}
    /\ Cardinality(Posts) = 1
    /\ Posts = ApiPosts
    /\ token = call.token
    /\ expires = call.expires
    /\ file = call.file

\* C15 witness: such a call, on a session that an earlier call refreshed.
C15_Witness ==
  /\ call.done
  /\ StartedValid
  /\ ~call.first
  /\ Cardinality(ApiPosts) = 1

HasErrorClass(r) == K_error_class \in DOMAIN json_loads(r.text)[2]

\* C16: the status is checked before error_class, and error_class before
\* the shape of the result: an answer with another status than 200 never
\* ends in StormException, and with raise_exceptions a 200 answer holding
\* error_class ends in StormException, returning nothing, for every
\* raw_json argument and session default.
C16_ClassificationOrder ==
  call.done =>
    \A i \in ApiPosts :
      /\ Events[i].resp.status # 200
           => (Raised /\ call.exc.type # "StormException" /\ call.ret = None)
      /\ (/\ Events[i].resp.status = 200
          /\ HasErrorClass(Events[i].resp)
          /\ cfg.raise_exceptions)
           => (call.exc.type = "StormException" /\ call.ret = None)

\* C16 witness: raw mode was asked for and the error answer still raised.
C16_Witness ==
  /\ call.done
  /\ call.raw_json = "True"
  /\ cfg.raise_exceptions
  /\ \E i \in ApiPosts : Events[i].resp.status = 200 /\ HasErrorClass(Events[i].resp)
  /\ call.exc.type = "StormException"

\* The refresh of the call ended in an error before a 200 answer of the
\* token endpoint: _get_token ran, no token request was answered 200 and no
\* API request followed.
RefreshFailed ==
  /\ RefreshStarted
  /\ \A j \in TokenFetches : Events[j].resp.status # 200
  /\ ApiPosts = {}
  /\ Raised

\* C18: when the refresh ends in an error, token and expiry are what they
\* were when the call started.
C18_FailedRefreshFrame ==
  (call.done /\ RefreshFailed) =>
    (token = call.token /\ expires = call.expires)

\* C17: with two LWApi objects alive, a call on one leaves the other's cfg,
\* token and expiry as they were; and the token and expiry of the object
\* called change only by what its own call fetched from the token endpoint
\* or read from the file.
C17_Ownership ==
  call.done =>
    /\ other = call.other
    /\ token # call.token
         => \/ \E j \in TokenFetches :
                 /\ Events[j].resp.status = 200
                 /\ token = AnswerToken(Events[j].resp)
            \/ (FileReads # {} /\ call.file # NoFile /\ token = readline(call.file))
    /\ expires # call.expires
         => \/ \E j \in TokenFetches :
                 /\ Events[j].resp.status = 200
                 /\ expires = AnswerExpiry(Events[j].resp)
            \/ /\ FileReads # {}
               /\ call.file # NoFile
               /\ FileExpiry(call.file) = <<"ok", expires>>

\* C17 witness: the other object holds a credential it fetched, and the
\* call on this one took a different credential from the file.
C17_Witness ==
  /\ call.done
  /\ other.token # <<>>
  /\ other.expires # 0
  /\ call.token = <<>>
  /\ FileReads # {}
  /\ TokenFetches = {}
  /\ token # <<>>
  /\ token # other.token
  /\ other = call.other

\* C19: a call that reads the file while another process is writing it ends
\* with a complete pair that the writer wrote, taken with no error, or goes
\* on to a token request; it never ends in an error of the read and never
\* holds the token of one write with the expiry of another.
C19_SharedFile ==
  (call.done /\ FileReads # {}) =>
    \/ TokenFetches # {}
    \/ /\ ApiPosts # {}
       /\ \E w \in WriterPairs : token = w[1] /\ expires = w[2]

====
